---- MODULE Spec2Model ----
(***************************************************************************)
(* Model of binja_datatypes/import_dwarf.py: the DwarfImporter class       *)
(* (constructor, _find_dwarf_file, the cached base_binaryview property,    *)
(* the cached import_debug_info, export_type_library) and the CLI main().  *)
(*                                                                         *)
(* A file name is a sequence of tokens; a token is either the dot "." or   *)
(* a dot-free run of characters ("a", "x", "bntl", "dSYM", ...).  A path   *)
(* is the sequence of its components (pathlib's parts); Path("") and       *)
(* Path(".") are the empty sequence, whose name is the empty name.         *)
(***************************************************************************)
EXTENDS Integers, Sequences, FiniteSets, TLC

\* ------------------------------------------------------------------ bounds
\* most extension parts (".bntl", ".a") appended to a stem to form an input name
MaxExts == 2
\* most functions a view or a debug-info record holds
MaxFuncs == 2
\* most import_debug_info / export_type_library calls made on one importer
MaxCalls == 2

\* ------------------------------------------------------------------ values
None == [some |-> FALSE]
Some(v) == [some |-> TRUE, val |-> v]

Dot == "."
BntlSuffix == <<Dot, "bntl">>
DsymSuffix == <<Dot, "dSYM">>

\* extension parts the input names are built from
ExtParts == {BntlSuffix, <<Dot, "a">>}

\* every concatenation of at most n extension parts
RECURSIVE ExtChains(_)
ExtChains(n) ==
    IF n = 0 THEN {<< >>}
    ELSE ExtChains(n - 1) \cup {c \o e : c \in ExtChains(n - 1), e \in ExtParts}

\* names with no stem, a leading dot, a trailing dot, or no dot at all
SpecialNames == {<< >>, <<Dot>>, <<Dot, "bntl">>, <<"a", Dot>>, <<"bntl">>}

\* the file names given on the command line or to the constructor
Names == {<<"a">> \o c : c \in ExtChains(MaxExts)} \cup SpecialNames

\* ------------------------------------------------------------------ pathlib
\* Path(string): a string without separators is one component; "" and "."
\* collapse to the empty path
PathOf(name) == IF name = << >> \/ name = <<Dot>> THEN << >> ELSE <<name>>

\* PurePath.name: the final component, "" for the empty path
NameOf(p) == IF p = << >> THEN << >> ELSE p[Len(p)]

\* str(path): the empty path prints as "."
StrName(p) == IF p = << >> THEN <<Dot>> ELSE p[Len(p)]

\* Path objects define neither __bool__ nor __len__: every Path is truthy
PathTruthy(p) == TRUE

\* Optional[Path] in a boolean context: None is falsy, a Path is truthy
Truthy(opt) == opt.some /\ PathTruthy(opt.val)

\* str.rfind('.') on a name, 1-based; 0 when there is no dot
RECURSIVE RFindDot(_, _)
RFindDot(name, i) ==
    IF i = 0 THEN 0
    ELSE IF name[i] = Dot THEN i ELSE RFindDot(name, i - 1)

\* PurePath.suffix: name[i:] for the last dot at i, when that dot is neither
\* the first nor the last character of the name; else ""
Suffix(p) ==
    LET name == NameOf(p)
        i    == RFindDot(name, Len(name))
    IN  IF 1 < i /\ i < Len(name) THEN SubSeq(name, i, Len(name)) ELSE << >>

\* PurePath.with_suffix: ValueError on an empty name; otherwise the old
\* suffix (if any) is cut from the name and the new one appended
WithSuffix(p, suffix) ==
    LET name == NameOf(p)
        old  == Suffix(p)
        stem == SubSeq(name, 1, Len(name) - Len(old))
    IN  IF name = << >> THEN [ok |-> FALSE]
        ELSE [ok |-> TRUE, path |-> SubSeq(p, 1, Len(p) - 1) \o <<stem \o suffix>>]

\* Path(f"{base_file}.dSYM")
DsymPath(base_file) ==
    SubSeq(base_file, 1, Len(base_file) - 1) \o <<StrName(base_file) \o DsymSuffix>>

\* dsym_path / "Contents" / "Resources" / "DWARF" / base_file.name
\* (joining the empty name adds no component)
DwarfPath(base_file) ==
    DsymPath(base_file) \o <<<<"Contents">>, <<"Resources">>, <<"DWARF">>>>
        \o (IF NameOf(base_file) = << >> THEN << >> ELSE <<NameOf(base_file)>>)

\* every non-empty prefix of a path: the path and the directories above it
Ancestors(p) == {SubSeq(p, 1, k) : k \in 1..Len(p)}


\* ------------------------------------------------------------ environment
\* The module-level name `bv` read at line 46: unbound when the script runs
\* on its own, bound to None or to the open view inside the platform's
\* console; an open view's file has a name, "" when nothing is loaded
BvUndefined == [kind |-> "undefined"]
BvNone == [kind |-> "None"]
BvView(filename) == [kind |-> "view", filename |-> filename]
BvStates == {BvUndefined, BvNone, BvView(<< >>), BvView(<<"a">>)}

\* base files for which the file system may hold a .dSYM bundle
FsBases == {<<<<"a">>>>, <<<<"a", Dot, "a">>>>}

\* the file systems considered: no bundle at all, a bare <base>.dSYM
\* directory, or a bundle holding the DWARF file; a file system holds the
\* directories above each of its paths
FsStates ==
    {{}} \cup {Ancestors(DsymPath(b)) : b \in FsBases}
         \cup {Ancestors(DwarfPath(b)) : b \in FsBases}

\* Path.exists()
Exists(files, p) == p \in files

\* ------------------------------------------------------------ DwarfImporter
\* variant: the bundle directory itself is returned
FindDwarfFileBundle(files, base_file) ==
    IF Exists(files, DsymPath(base_file))
    THEN [err |-> "none", path |-> DsymPath(base_file)]
    ELSE [err |-> "FileNotFoundError"]

\* result of _find_dwarf_file: the path inside the bundle when <base>.dSYM
\* exists, else FileNotFoundError
FindDwarfFile(files, base_file) ==
    IF Exists(files, DsymPath(base_file))
    THEN [err |-> "none", path |-> DwarfPath(base_file)]
    ELSE [err |-> "FileNotFoundError"]

NoImporter == [constructed |-> FALSE]

Failed(e, discovered) == [err |-> e, discovery |-> discovered, importer |-> NoImporter]

\* variant: discovery runs first and the argument is only a fallback
ResolveDwarfFileDiscoverFirst(files, base_file, dwarf_file) ==
    LET found == FindDwarfFile(files, base_file)
    IN  IF found.err = "none"
        THEN [err |-> "none", discovery |-> TRUE, path |-> found.path]
        ELSE IF Truthy(dwarf_file)
        THEN [err |-> "none", discovery |-> TRUE, path |-> dwarf_file.val]
        ELSE [err |-> found.err, discovery |-> TRUE]

\* line 52: dwarf_file or self._find_dwarf_file(self.base_file); discovery
\* runs only when the argument is falsy
ResolveDwarfFile(files, base_file, dwarf_file) ==
    IF Truthy(dwarf_file)
    THEN [err |-> "none", discovery |-> FALSE, path |-> dwarf_file.val]
    ELSE LET found == FindDwarfFile(files, base_file)
         IN  IF found.err = "none"
             THEN [err |-> "none", discovery |-> TRUE, path |-> found.path]
             ELSE [err |-> found.err, discovery |-> TRUE]

\* line 53: type_archive or self.base_file.with_suffix(".bntl")
ResolveTypeArchive(base_file, type_archive) ==
    IF Truthy(type_archive) THEN [ok |-> TRUE, path |-> type_archive.val]
    ELSE WithSuffix(base_file, BntlSuffix)

\* lines 52-53 of __init__, with self.base_file already bound
InitPaths(files, base_file, dwarf_file, type_archive) ==
    LET dwarf   == ResolveDwarfFile(files, base_file, dwarf_file)
        archive == ResolveTypeArchive(base_file, type_archive)
    IN  IF dwarf.err # "none" THEN Failed(dwarf.err, dwarf.discovery)
        ELSE IF ~archive.ok THEN Failed("ValueError: empty name", dwarf.discovery)
        ELSE [err       |-> "none",
              discovery |-> dwarf.discovery,
              importer  |->
                [constructed  |-> TRUE,
                 base_file    |-> base_file,
                 dwarf_file   |-> dwarf.path,
                 type_archive |-> archive.path]]

\* DwarfImporter.__init__(base_file, dwarf_file, type_archive); each
\* argument is None or Some(path).  Yields the error raised ("none" when
\* construction completes), whether _find_dwarf_file ran, and the importer.
Construct(files, bvar, base_file, dwarf_file, type_archive) ==
    IF ~Truthy(base_file) /\ bvar.kind = "undefined" THEN Failed("NameError", FALSE)
    ELSE IF ~Truthy(base_file) /\ bvar.kind = "None" THEN Failed("AttributeError", FALSE)
    ELSE LET self_base_file == IF Truthy(base_file) THEN base_file.val
                               ELSE PathOf(bvar.filename)
         IN  IF ~PathTruthy(self_base_file)
             THEN Failed("ValueError: No base file provided", FALSE)
             ELSE InitPaths(files, self_base_file, dwarf_file, type_archive)

\* ------------------------------------------------------------ the platform
\* What the platform makes of the two files: the kind of view the base
\* binary loads as (with or without an architecture / a platform), and the
\* types and functions the DWARF parser finds in the debug file.
ViewKinds == {"full", "no arch", "no platform"}

\* a name -> type mapping is a set of <<name, type>> pairs with distinct names
Put(map, name, type) == {e \in map : e[1] # name} \cup {<<name, type>>}
Keys(map) == {e[1] : e \in map}

Func(name, type) == [name |-> name, type |-> type]
\* functions are told apart by address, so two may bear one name
FuncPool == {Func("f", "int()"), Func("f", "void()"), Func("g", "int()")}

RECURSIVE FuncLists(_)
FuncLists(n) ==
    IF n = 0 THEN {<< >>}
    ELSE FuncLists(n - 1)
         \cup {Append(l, f) : l \in {x \in FuncLists(n - 1) : Len(x) = n - 1}, f \in FuncPool}

TypeMaps == {{}, {<<"T", "struct">>, <<"U", "int">>}}

DebugInfos == [types : TypeMaps, functions : FuncLists(MaxFuncs)]

\* the view binaryninja.load returns for the base file, before any merge
NewView(id, kind) ==
    [id |-> id, kind |-> kind, types |-> {}, functions |-> << >>,
     applied |-> FALSE, analysed |-> FALSE]

\* platform calls that may raise (finalize: return False)
FailPoints == {"none", "load_dwarf", "load_base", "parse", "apply", "update",
               "new", "finalize", "write"}
\* those among them that import_debug_info and base_binaryview can reach
ImportFailPoints == {"none", "load_dwarf", "load_base", "parse", "apply", "update"}
LoadFailPoints == {"none", "load_base"}

\* TypeLibrary named-object store on a name already present: the platform
\* either replaces the entry or keeps the first one
Policies == {"replace", "keep"}

\* ------------------------------------------------------ run-time bookkeeping
\* m: the importer's memo state and the trace of one call:
\*   view    base_binaryview's cached value (None until first computed)
\*   cached  whether import_debug_info's result is cached
\*   log     the calls made, in order, during the current operation
\*   err     the exception the current operation ends with ("none")
\*   loads   completed loads of the base binary
\*   imports completed parse/apply/update sequences
\*   used    ids of the view objects handed to the platform so far
\*   disk    files written: a name -> library mapping
Emit(m, event) == [m EXCEPT !.log = Append(@, event)]
Raise(m, e) == [m EXCEPT !.err = e]
Use(m) == [m EXCEPT !.used = @ \cup {m.view.val.id}]

\*   lib     the type library the current export is building (None)
\*   wrote   the path the current operation wrote (None)
BeginCall(m) == [m EXCEPT !.log = << >>, !.err = "none", !.lib = None, !.wrote = None]

\* variant: a plain property, every access loads the base file again
BaseBinaryViewUncached(m, kind, failAt) ==
    IF m.err # "none" THEN m
    ELSE IF failAt = "load_base" THEN Raise(Emit(m, "load_base"), "PlatformError")
    ELSE [Emit(m, "load_base") EXCEPT !.view = Some(NewView(m.loads + 1, kind)),
                                      !.loads = @ + 1]

\* the cached_property base_binaryview: the first access loads the base
\* file and stores the view on the instance; later accesses return it.
\* Nothing is stored when the load raises.
BaseBinaryView(m, kind, failAt) ==
    IF m.err # "none" \/ m.view.some THEN m
    ELSE IF failAt = "load_base" THEN Raise(Emit(m, "load_base"), "PlatformError")
    ELSE [Emit(m, "load_base") EXCEPT !.view = Some(NewView(m.loads + 1, kind)),
                                      !.loads = @ + 1]

\* line 67: binaryninja.load(str(self.dwarf_file))
LoadDebugFile(m, failAt) ==
    IF m.err # "none" THEN m
    ELSE IF failAt = "load_dwarf" THEN Raise(Emit(m, "load_dwarf"), "PlatformError")
    ELSE Emit(m, "load_dwarf")

\* line 70: DebugInfoParser["DWARF"].parse_debug_info(self.base_binaryview, ...)
ParseDebugInfo(m, kind, failAt) ==
    LET a == BaseBinaryView(m, kind, failAt)
    IN  IF a.err # "none" THEN a
        ELSE IF failAt = "parse" THEN Raise(Emit(Use(a), "parse"), "PlatformError")
        ELSE Emit(Use(a), "parse")

\* line 71: self.base_binaryview.apply_debug_info(debug_info)
ApplyDebugInfo(m, kind, info, failAt) ==
    LET a == BaseBinaryView(m, kind, failAt)
    IN  IF a.err # "none" THEN a
        ELSE IF failAt = "apply" THEN Raise(Emit(Use(a), "apply"), "PlatformError")
        ELSE [Emit(Use(a), "apply") EXCEPT
                !.view = Some([a.view.val EXCEPT !.types = info.types,
                                                 !.functions = info.functions,
                                                 !.applied = TRUE,
                                                 !.analysed = FALSE])]

\* line 72: self.base_binaryview.update_analysis_and_wait()
UpdateAnalysis(m, kind, failAt) ==
    LET a == BaseBinaryView(m, kind, failAt)
    IN  IF a.err # "none" THEN a
        ELSE IF failAt = "update" THEN Raise(Emit(Use(a), "update"), "PlatformError")
        ELSE [Emit(Use(a), "update") EXCEPT
                !.view = Some([a.view.val EXCEPT !.analysed = TRUE])]

\* the body of import_debug_info, lines 67-72
ImportBody(m, kind, info, failAt) ==
    UpdateAnalysis(
      ApplyDebugInfo(
        ParseDebugInfo(LoadDebugFile(m, failAt), kind, failAt),
        kind, info, failAt),
      kind, failAt)

\* variant: a hand-rolled "done" flag set whether or not the body returned
ImportDebugInfoCacheFailures(m, kind, info, failAt) ==
    IF m.err # "none" \/ m.cached THEN m
    ELSE LET r == ImportBody(m, kind, info, failAt)
         IN  IF r.err = "none" THEN [r EXCEPT !.cached = TRUE, !.imports = @ + 1]
             ELSE [r EXCEPT !.cached = TRUE]

\* import_debug_info under functools.cache: the body runs unless a result is
\* cached for this importer; a result is cached only when the body returns
ImportDebugInfo(m, kind, info, failAt) ==
    IF m.err # "none" \/ m.cached THEN m
    ELSE LET r == ImportBody(m, kind, info, failAt)
         IN  IF r.err = "none" THEN [r EXCEPT !.cached = TRUE, !.imports = @ + 1]
             ELSE r

\* ------------------------------------------------------ export_type_library
NewLibrary == [named_types |-> {}, named_objects |-> {}, finalized |-> FALSE]

\* type_library.add_named_type(name, type)
AddNamedType(lib, name, type) ==
    [lib EXCEPT !.named_types = Put(@, name, type)]

\* variant: function signatures registered with add_named_type
AddNamedObjectAsType(lib, name, type, policy) ==
    [lib EXCEPT !.named_types = Put(@, name, type)]

\* type_library.add_named_object(name, type)
AddNamedObject(lib, name, type, policy) ==
    IF policy = "keep" /\ name \in Keys(lib.named_objects) THEN lib
    ELSE [lib EXCEPT !.named_objects = Put(@, name, type)]

\* lines 87-89: for name, type in self.base_binaryview.types.items()
RECURSIVE CopyTypes(_, _)
CopyTypes(lib, todo) ==
    IF todo = {} THEN lib
    ELSE LET e == CHOOSE x \in todo : TRUE
         IN  CopyTypes(AddNamedType(lib, e[1], e[2]), todo \ {e})

\* lines 92-94: for function in self.base_binaryview.functions
RECURSIVE CopyFunctions(_, _, _, _)
CopyFunctions(lib, functions, i, policy) ==
    IF i > Len(functions) THEN lib
    ELSE CopyFunctions(AddNamedObject(lib, functions[i].name, functions[i].type, policy),
                       functions, i + 1, policy)

Repeat(event, n) == [i \in 1..n |-> event]

\* lines 77-81: arch, filename and the two assertions
CheckView(m, kind, failAt) ==
    LET a == BaseBinaryView(m, kind, failAt)
    IN  IF a.err # "none" THEN a
        ELSE IF a.view.val.kind = "no arch" THEN Raise(Use(a), "AssertionError")
        ELSE IF a.view.val.kind = "no platform" THEN Raise(Use(a), "AssertionError")
        ELSE Use(a)

\* lines 82-94: the new library, filled from the view; the record carries
\* the library when no error was raised
FillLibrary(m, kind, failAt, policy) ==
    LET a == BaseBinaryView(m, kind, failAt)
    IN  IF a.err # "none" THEN a
        ELSE IF failAt = "new" THEN Raise(Emit(a, "new_library"), "PlatformError")
        ELSE LET view  == a.view.val
                 lib1  == CopyTypes(NewLibrary, view.types)
                 lib2  == CopyFunctions(lib1, view.functions, 1, policy)
                 trace == <<"new_library", "read_types">>
                            \o Repeat("add_named_type", Cardinality(view.types))
                            \o <<"read_functions">>
                            \o Repeat("add_named_object", Len(view.functions))
             IN  [Use(a) EXCEPT !.log = @ \o trace, !.lib = Some(lib2)]

\* variant: finalize() called without checking what it returns
FinalizeUnchecked(m, failAt) ==
    IF m.err # "none" THEN m ELSE Emit(m, "finalize")

\* line 96: assert type_library.finalize()
Finalize(m, failAt) ==
    IF m.err # "none" THEN m
    ELSE IF failAt = "finalize" THEN Raise(Emit(m, "finalize"), "AssertionError")
    ELSE [Emit(m, "finalize") EXCEPT !.lib = Some([m.lib.val EXCEPT !.finalized = TRUE])]

\* variant: the constructor's archive path wins over the argument
OutputPathArchiveFirst(importer, output_file) == importer.type_archive

\* line 99: output_file or self.type_archive
OutputPath(importer, output_file) ==
    IF Truthy(output_file) THEN output_file.val ELSE importer.type_archive

\* line 100: type_library.write_to_file(str(output_path))
WriteToFile(m, path, failAt) ==
    IF m.err # "none" THEN m
    ELSE IF failAt = "write" THEN Raise(Emit(m, "write_to_file"), "PlatformError")
    ELSE [Emit(m, "write_to_file") EXCEPT !.disk = Put(@, path, m.lib.val),
                                          !.wrote = Some(path)]

\* export_type_library(output_file), lines 75-100
ExportTypeLibrary(m, importer, output_file, kind, info, failAt, policy) ==
    WriteToFile(
      Finalize(
        FillLibrary(
          CheckView(ImportDebugInfo(m, kind, info, failAt), kind, failAt),
          kind, failAt, policy),
        failAt),
      OutputPath(importer, output_file), failAt)


\* ------------------------------------------------------------------ state
VARIABLES
    fs,               \* the paths that exist on the file system
    bv,               \* what the global name `bv` is bound to
    kind,             \* the kind of view the base binary loads as
    info,             \* what the DWARF parser finds in the debug file
    pc,               \* "start", "ready" (an importer exists) or "exit"
    last,             \* the last operation and its arguments
    importer,         \* the DwarfImporter's three paths, once constructed
    base_binaryview,  \* the cached_property's stored value
    import_cached,    \* whether functools.cache holds import_debug_info's result
    given,            \* the arguments the importer was constructed with
    log, err, lib,    \* trace, exception and library of the last operation
    wrote,            \* the path the last operation wrote, if any
    loads, imports, used, disk, calls

vars == <<fs, bv, kind, info, pc, last, importer, given, base_binaryview,
          import_cached, log, err, lib, wrote, loads, imports, used, disk, calls>>

env == <<fs, bv, kind, info>>

Cur ==
    [view |-> base_binaryview, cached |-> import_cached, log |-> log, err |-> err,
     lib |-> lib, wrote |-> wrote, loads |-> loads, imports |-> imports, used |-> used, disk |-> disk]

Commit(m) ==
    /\ base_binaryview' = m.view
    /\ import_cached' = m.cached
    /\ log' = m.log
    /\ err' = m.err
    /\ lib' = m.lib
    /\ wrote' = m.wrote
    /\ loads' = m.loads
    /\ imports' = m.imports
    /\ used' = m.used
    /\ disk' = m.disk

Fresh ==
    /\ pc = "start"
    /\ last = [op |-> "none"]
    /\ importer = NoImporter
    /\ given = None
    /\ base_binaryview = None
    /\ import_cached = FALSE
    /\ log = << >> /\ err = "none" /\ lib = None /\ wrote = None
    /\ loads = 0 /\ imports = 0 /\ used = {} /\ disk = {} /\ calls = 0

Args(base_file, dwarf_file, type_archive) ==
    [base_file |-> base_file, dwarf_file |-> dwarf_file, type_archive |-> type_archive]

\* arguments: None or a path
OptPaths == {None} \cup {Some(PathOf(n)) : n \in Names}
ExplicitDwarf == <<<<"d", Dot, "dwarf">>>>
OptDwarf == {None, Some(ExplicitDwarf)}

\* ------------------------------------------------------------ constructor
\* DwarfImporter(base_file, dwarf_file, type_archive), lines 42-53
New(base_file, dwarf_file, type_archive) ==
    LET r == Construct(fs, bv, base_file, dwarf_file, type_archive)
    IN  /\ pc = "start"
        /\ pc' = IF r.err = "none" THEN "ready" ELSE "exit"
        /\ last' = [op |-> "new"]
        /\ given' = Some(Args(base_file, dwarf_file, type_archive))
        /\ importer' = r.importer
        /\ log' = IF r.discovery THEN <<"__init__", "_find_dwarf_file">> ELSE <<"__init__">>
        /\ err' = r.err
        /\ UNCHANGED <<env, base_binaryview, import_cached, lib, wrote, loads,
                       imports, used, disk, calls>>

InitCtor ==
    /\ fs \in FsStates
    /\ bv \in BvStates
    /\ kind = "full"
    /\ info = [types |-> {}, functions |-> << >>]
    /\ Fresh

NextCtor ==
    pc = "start" /\ \E b \in OptPaths, d \in OptDwarf, t \in OptPaths : New(b, d, t)

\* the constructor alone, over every file system and binding of `bv`
SpecCtor == InitCtor /\ [][NextCtor]_vars

\* ------------------------------------------------------------------- main
\* variant: the check is str.endswith(".bntl") on the file name
RejectTypeLibraryEndsWith(type_library) ==
    /\ Truthy(type_library)
    /\ LET name == NameOf(type_library.val)
       IN  \/ Len(name) < 2
           \/ SubSeq(name, Len(name) - 1, Len(name)) # BntlSuffix

\* line 114: args.type_library and args.type_library.suffix != ".bntl"
RejectTypeLibrary(type_library) ==
    Truthy(type_library) /\ Suffix(type_library.val) # BntlSuffix

\* main(), lines 103-118: BASE_FILE is required, the two options are not
Main(BASE_FILE, dwarf_file, type_library, failAt, policy) ==
    LET bad  == RejectTypeLibrary(type_library)
        r    == Construct(fs, bv, Some(BASE_FILE), dwarf_file, type_library)
        init == IF r.discovery THEN <<"__init__", "_find_dwarf_file">> ELSE <<"__init__">>
        m0   == [BeginCall(Cur) EXCEPT !.log = init]
    IN  /\ pc = "start"
        /\ pc' = "exit"
        /\ last' = [op |-> "main"]
        /\ given' = Some(Args(Some(BASE_FILE), dwarf_file, type_library))
        /\ calls' = calls
        /\ UNCHANGED env
        /\ IF bad
           THEN /\ importer' = NoImporter
                /\ Commit([BeginCall(Cur) EXCEPT !.log = <<"parser.error">>,
                                                 !.err = "ParserError"])
           ELSE IF r.err # "none"
           THEN /\ importer' = NoImporter
                /\ Commit(Raise(m0, r.err))
           ELSE /\ importer' = r.importer
                /\ Commit(ExportTypeLibrary(m0, r.importer, None, kind, info, failAt, policy))

CliInfos ==
    {[types |-> {}, functions |-> << >>],
     [types |-> {<<"T", "struct">>}, functions |-> <<Func("f", "int()")>>]}

InitCli ==
    /\ fs \in FsStates
    /\ bv = BvUndefined
    /\ kind \in ViewKinds
    /\ info \in CliInfos
    /\ Fresh

NextCli ==
    pc = "start" /\ \E n \in Names, d \in OptDwarf, t \in OptPaths :
                        \E f \in FailPoints, p \in Policies : Main(PathOf(n), d, t, f, p)

\* one run of the command-line program
SpecCli == InitCli /\ [][NextCli]_vars


\* ------------------------------------------------- calls on one importer
\* importer.import_debug_info()
CallImportDebugInfo(failAt) ==
    /\ pc = "ready" /\ calls < MaxCalls
    /\ calls' = calls + 1
    /\ last' = [op |-> "import_debug_info"]
    /\ Commit(ImportDebugInfo(BeginCall(Cur), kind, info, failAt))
    /\ UNCHANGED <<env, pc, importer, given>>

\* importer.export_type_library(output_file)
CallExportTypeLibrary(output_file, failAt, policy) ==
    /\ pc = "ready" /\ calls < MaxCalls
    /\ calls' = calls + 1
    /\ last' = [op |-> "export_type_library", output_file |-> output_file]
    /\ Commit(ExportTypeLibrary(BeginCall(Cur), importer, output_file, kind, info,
                                failAt, policy))
    /\ UNCHANGED <<env, pc, importer, given>>

\* importer.base_binaryview read by the caller
ReadBaseBinaryView(failAt) ==
    /\ pc = "ready" /\ calls < MaxCalls
    /\ calls' = calls + 1
    /\ last' = [op |-> "base_binaryview"]
    /\ Commit(BaseBinaryView(BeginCall(Cur), kind, failAt))
    /\ UNCHANGED <<env, pc, importer, given>>

\* constructor arguments of the importers the calls are made on: explicit
\* debug file, with and without an explicit type archive
LibArgs ==
    {Args(Some(<<<<"a", Dot, "a">>>>), Some(ExplicitDwarf), t) :
        t \in {None, Some(<<<<"out", Dot, "a">>>>)}}

OutputFiles == {None, Some(<<<<"o", Dot, "bntl">>>>)}

Init ==
    /\ fs = {}
    /\ bv = BvUndefined
    /\ kind \in ViewKinds
    /\ info \in DebugInfos
    /\ pc = "ready"
    /\ last = [op |-> "new"]
    /\ given \in {Some(a) : a \in LibArgs}
    /\ importer = Construct(fs, bv, given.val.base_file, given.val.dwarf_file,
                            given.val.type_archive).importer
    /\ base_binaryview = None
    /\ import_cached = FALSE
    /\ log = <<"__init__">> /\ err = "none" /\ lib = None /\ wrote = None
    /\ loads = 0 /\ imports = 0 /\ used = {} /\ disk = {} /\ calls = 0

Next ==
    \/ \E f \in ImportFailPoints : CallImportDebugInfo(f)
    \/ \E o \in OutputFiles, f \in FailPoints, p \in Policies : CallExportTypeLibrary(o, f, p)
    \/ \E f \in LoadFailPoints : ReadBaseBinaryView(f)

\* any sequence of calls on a constructed importer
Spec == Init /\ [][Next]_vars

\* a run of the command-line program, or calls on a constructed importer
InitAll == InitCli \/ Init
NextAll == NextCli \/ Next
SpecAll == InitAll /\ [][NextAll]_vars


\* ==================================================================== claims
Has(seq, event) == \E i \in DOMAIN seq : seq[i] = event
Count(seq, event) == Cardinality({i \in DOMAIN seq : seq[i] = event})
\* position of the first occurrence, 0 when there is none
IndexOf(seq, event) ==
    IF Has(seq, event)
    THEN CHOOSE i \in DOMAIN seq : seq[i] = event /\ \A j \in 1..(i - 1) : seq[j] # event
    ELSE 0
Lookup(map, key) == (CHOOSE e \in map : e[1] = key)[2]

\* the sibling path '<B>.dSYM/Contents/Resources/DWARF/<name of B>'
SiblingDwarf(B) ==
    SubSeq(B, 1, Len(B) - 1) \o <<StrName(B) \o <<Dot, "dSYM">>>>
        \o <<<<"Contents">>, <<"Resources">>, <<"DWARF">>>> \o PathOf(NameOf(B))

Constructing == last.op = "new" /\ given.some
\* the constructor got as far as binding self.base_file
BaseBound == Truthy(given.val.base_file) \/ bv.kind = "view"
BaseFile ==
    IF Truthy(given.val.base_file) THEN given.val.base_file.val ELSE PathOf(bv.filename)
NoFileOpen == bv.kind \in {"undefined", "None"} \/ bv.filename = << >>

\* C1: when no dwarf_file is given and the sibling path
\* <B>.dSYM/Contents/Resources/DWARF/<name of B> exists, discovery runs,
\* returns exactly that path and the importer's dwarf_file is that path.
C1_DiscoveryReturnsSibling ==
    (Constructing /\ BaseBound /\ ~Truthy(given.val.dwarf_file)
        /\ SiblingDwarf(BaseFile) \in fs)
    => /\ Has(log, "_find_dwarf_file")
       /\ FindDwarfFile(fs, BaseFile) = [err |-> "none", path |-> SiblingDwarf(BaseFile)]
       /\ err \in {"none", "ValueError: empty name"}
       /\ importer.constructed => importer.dwarf_file = SiblingDwarf(BaseFile)

C1_Witness ==
    /\ Constructing /\ ~Truthy(given.val.dwarf_file)
    /\ importer.constructed
    /\ SiblingDwarf(importer.base_file) \in fs
    /\ importer.dwarf_file = SiblingDwarf(importer.base_file)

\* C2: whenever the sibling path is absent, discovery fails with
\* FileNotFoundError and construction without a dwarf_file does not complete.
C2_AbsentSiblingFails ==
    (Constructing /\ BaseBound /\ ~Truthy(given.val.dwarf_file)
        /\ SiblingDwarf(BaseFile) \notin fs)
    => err = "FileNotFoundError" /\ ~importer.constructed

\* C3: a --type-library path whose extension is not .bntl ends the run in
\* an argument-parser error before anything else happens: no importer, no
\* discovery, no platform call, no file written.
C3_RejectedBeforeProcessing ==
    (last.op = "main" /\ Truthy(given.val.type_archive)
        /\ Suffix(given.val.type_archive.val) # <<Dot, "bntl">>)
    => /\ err = "ParserError"
       /\ log = <<"parser.error">>
       /\ importer = NoImporter
       /\ base_binaryview = None /\ loads = 0 /\ imports = 0 /\ used = {}
       /\ disk = {} /\ wrote = None

C3_Witness ==
    /\ last.op = "main" /\ err = "ParserError"
    /\ given.val.type_archive = Some(<<<<"a", Dot, "bntl", Dot, "a">>>>)
    /\ log = <<"parser.error">>

\* C4: with an explicit debug file, _find_dwarf_file never runs: dwarf_file
\* is the explicit path whatever bundles exist, and construction does not
\* fail with the discovery's FileNotFoundError.
C4_ExplicitShortCircuits ==
    (Constructing /\ Truthy(given.val.dwarf_file))
    => /\ ~Has(log, "_find_dwarf_file")
       /\ err # "FileNotFoundError"
       /\ importer.constructed => importer.dwarf_file = given.val.dwarf_file.val

C4_Witness ==
    /\ Constructing /\ Truthy(given.val.dwarf_file)
    /\ importer.constructed
    /\ SiblingDwarf(importer.base_file) \in fs
    /\ importer.dwarf_file = given.val.dwarf_file.val

\* C5: constructed with no base file while no file is open in the platform,
\* the constructor raises the 'No base file provided' ValueError, before
\* discovery, and no importer is produced.
C5_NoBaseFileRaisesValueError ==
    (Constructing /\ ~Truthy(given.val.base_file) /\ NoFileOpen)
    => /\ err = "ValueError: No base file provided"
       /\ ~Has(log, "_find_dwarf_file")
       /\ ~importer.constructed


Exported == last.op = "export_type_library" /\ err = "none"
View == base_binaryview.val
SameName(i, j) == View.functions[i].name = View.functions[j].name

\* C6: after a successful export the library written to disk holds every
\* (name, type) entry of the view's types and, for every function of the
\* view, that function's type as the named object under the function's name.
C6_EveryFunctionRegistered ==
    Exported
    => /\ wrote.some /\ wrote.val \in Keys(disk)
       /\ LET written == Lookup(disk, wrote.val)
          IN  /\ written.finalized
              /\ \A e \in View.types : e \in written.named_types
              /\ \A i \in DOMAIN View.functions :
                    <<View.functions[i].name, View.functions[i].type>>
                        \in written.named_objects

\* What the export does guarantee: every type entry is in the written
\* library; every function name is registered as a named object holding the
\* type of a function of the view that bears this name (its own type when no
\* other function does), and nothing else is registered as a named object.
C6_EveryFunctionNameRegistered ==
    Exported
    => /\ wrote.some /\ wrote.val \in Keys(disk)
       /\ LET written == Lookup(disk, wrote.val)
          IN  /\ written.finalized
              /\ written.named_types = View.types
              /\ \A i \in DOMAIN View.functions :
                    \E j \in DOMAIN View.functions :
                        /\ SameName(i, j)
                        /\ <<View.functions[i].name, View.functions[j].type>>
                              \in written.named_objects
              /\ \A e \in written.named_objects :
                    \E j \in DOMAIN View.functions :
                        e = <<View.functions[j].name, View.functions[j].type>>

MergeSteps == <<"load_dwarf", "parse", "apply", "update">>
MergeStepsWithLoad == <<"load_dwarf", "load_base", "parse", "apply", "update">>

\* C7: whenever export_type_library creates the library or reads the view's
\* types or functions, the merge load debug file -> parse -> apply ->
\* update_analysis_and_wait has completed before: in this call, as the whole
\* of what precedes the library's creation, or in an earlier call; the view
\* read is the merged, analysed one.
C7_ReadsFollowMerge ==
    (last.op = "export_type_library"
        /\ (Has(log, "new_library") \/ Has(log, "read_types") \/ Has(log, "read_functions")))
    => LET k == IndexOf(log, "new_library")
       IN  /\ k > 0
           /\ SubSeq(log, 1, k - 1) \in {<< >>, MergeSteps, MergeStepsWithLoad}
           /\ (k = 1) => calls > 1
           /\ (Has(log, "read_types") => IndexOf(log, "read_types") > k)
           /\ (Has(log, "read_functions") => IndexOf(log, "read_functions") > k)
           /\ imports >= 1 /\ import_cached
           /\ View.applied /\ View.analysed
           /\ View.types = info.types /\ View.functions = info.functions

C7_Witness ==
    /\ Exported /\ calls = 2
    /\ log[1] = "new_library" /\ Has(log, "read_functions")
    /\ View.functions # << >>

ImportEvents == {"load_dwarf", "parse", "apply", "update"}

\* C8: over any sequence of calls the base binary is loaded at most once and
\* the parse/apply/update sequence completes at most once; once it has
\* completed no later call runs any step of it, once a view is stored no
\* later call loads one, and every platform call is made on that one view.
C8_Memoized ==
    [][/\ loads' <= 1 /\ imports' <= 1 /\ Cardinality(used') <= 1
       /\ import_cached
            => /\ import_cached' /\ imports' = imports
               /\ \A i \in DOMAIN log' : log'[i] \notin ImportEvents
       /\ base_binaryview.some
            => /\ base_binaryview'.some
               /\ base_binaryview'.val.id = base_binaryview.val.id
               /\ loads' = loads /\ ~Has(log', "load_base")]_vars

C8_Witness ==
    /\ Exported /\ calls = 2
    /\ loads = 1 /\ imports = 1 /\ used = {1}
    /\ ~Has(log, "parse") /\ ~Has(log, "load_base")

\* C9: in every export_type_library call write_to_file is called at most
\* once, as the last step, after every add call and after finalize returned
\* true; when the import fails, the view lacks an arch or platform, or
\* finalize fails, the call ends in an error with no file written.
C9_WriteOnlyAfterFinalize ==
    [][last'.op = "export_type_library"
       => /\ Count(log', "write_to_file") <= 1
          /\ Has(log', "write_to_file")
               => /\ log'[Len(log')] = "write_to_file"
                  /\ Len(log') > 1 /\ log'[Len(log') - 1] = "finalize"
                  /\ lib'.some /\ lib'.val.finalized
          /\ (err' = "none") <=> wrote'.some
          /\ wrote'.some => Has(log', "write_to_file")
          /\ err' # "none" => disk' = disk
          /\ kind # "full" => err' # "none"
          /\ ~import_cached' => err' # "none"
          /\ (lib'.some /\ ~lib'.val.finalized) => err' # "none"]_vars

C9_Witness ==
    /\ last.op = "export_type_library"
    /\ err = "AssertionError" /\ log[Len(log)] = "finalize"
    /\ lib.some /\ ~lib.val.finalized
    /\ disk = {} /\ wrote = None

Stem(p) == SubSeq(NameOf(p), 1, Len(NameOf(p)) - Len(Suffix(p)))

\* C10: the path written is the output_file argument if given, otherwise the
\* type_archive given to the constructor, otherwise the base file's path
\* with its last suffix replaced by .bntl; so every run of the command-line
\* program that writes writes a path whose extension is .bntl.
C10_OutputPathPrecedence ==
    wrote.some
    => LET base == given.val.base_file.val
           out  == wrote.val
       IN  /\ IF last.op = "export_type_library" /\ last.output_file.some
              THEN out = last.output_file.val
              ELSE IF given.val.type_archive.some
              THEN out = given.val.type_archive.val
              ELSE /\ Len(out) = Len(base)
                   /\ SubSeq(out, 1, Len(out) - 1) = SubSeq(base, 1, Len(base) - 1)
                   /\ Suffix(out) = <<Dot, "bntl">>
                   /\ Stem(out) = Stem(base)
           /\ last.op = "main" => Suffix(out) = <<Dot, "bntl">>

C10_Witness ==
    /\ last.op = "main" /\ wrote.some
    /\ ~given.val.type_archive.some
    /\ Suffix(given.val.base_file.val) = <<Dot, "a">>
    /\ Suffix(wrote.val) = <<Dot, "bntl">>

====
